---- MODULE Spec2Model ----
(***************************************************************************)
(* A model of cheroot/workers/threadpool.py: the ThreadPool (start, put,   *)
(* grow, shrink, stop, idle) and the WorkerThread loop (run,               *)
(* process_conns, get_expired_conns, close_conns).                         *)
(*                                                                         *)
(* Threads are interleaved at the granularity of their blocking calls and  *)
(* of their accesses to shared state (the queue, the worker fields that    *)
(* the pool reads).  Time is a global integer clock.                       *)
(***************************************************************************)
EXTENDS Integers, Sequences, FiniteSets, TLC

\* ------------------------------------------------------------------ bounds
MaxWorkers == 3     \* WorkerThread objects ever created in a run
NumConns == 2       \* connections the accept loop ever submits
MaxTime == 3        \* the clock stops here
MaxQueue == 3       \* depth the model lets an unbounded queue reach
MaxMin == 2         \* largest configured min
MaxAmount == 3      \* largest argument of grow / shrink
MaxCount == 2       \* requests one connection serves while its counters are followed
MaxBanked == 3      \* a worker's banked requests beyond which it is not followed

\* ------------------------------------------------------- program constants
_SHUTDOWNREQUEST == 0
None == 0
MAIN == 0           \* the thread that is no worker
NoTime == -1        \* start_time = None

Workers == 1..MaxWorkers
Conns == 1..NumConns

VARIABLES
    min,          \* ThreadPool.min
    max,          \* ThreadPool.max
    maxsize,      \* accepted_queue_size, the Queue's maxsize
    srv_timeout,  \* server.timeout
    threads,      \* ThreadPool._threads, a list of workers
    queue,        \* ThreadPool._queue, items are connections or _SHUTDOWNREQUEST
    pc,           \* where the pool call in progress stands ("idle": none)
    caller,       \* the thread running the pool call: MAIN or a worker
    started,      \* start() has been called
    amount,       \* grow / shrink: the argument;  shrink, stop: puts left to do
    workers,      \* grow: the list of workers just spawned
    timeout,      \* stop: the argument (-1: None or negative)
    endtime,      \* stop: endtime
    worker,       \* stop: the worker popped and being joined
    interrupted,  \* stop: a join of this call was cut short by KeyboardInterrupt
    stopping,     \* stop: the list as it was when stop was called
    wpc,          \* per worker: where its thread stands
    ready,        \* per worker: WorkerThread.ready
    conn,         \* per worker: WorkerThread.conn
    conn_socks,   \* per worker: run()'s conn_socks, connection -> last_active
    rlist,        \* per worker: process_conns' rlist still to be handled
    expired,      \* per worker: close_conns' conn_list still to be handled
    exit,         \* per worker: why run() ended
    interrupt,    \* server.interrupt: the worker that recorded one, or None
    cst,          \* per connection: what became of its put
    closes,       \* per connection: calls of close()
    shut,         \* per connection: socket.shutdown(SHUT_RD) was called
    now,          \* time.time()
    stats_enabled,        \* server.stats['Enabled']
    requests_seen,        \* per worker: WorkerThread.requests_seen
    bytes_read,           \* per worker: WorkerThread.bytes_read
    bytes_written,        \* per worker: WorkerThread.bytes_written
    start_time,           \* per worker: WorkerThread.start_time
    conn_requests_seen,   \* per connection: conn.requests_seen
    rfile_bytes_read,     \* per connection: conn.rfile.bytes_read
    wfile_bytes_written,  \* per connection: conn.wfile.bytes_written
    served,               \* per worker: what its calls of communicate() have served
    readable      \* the connections whose socket has data waiting to be read

poolVars == <<min, max, maxsize, srv_timeout, threads, queue, pc, caller, started,
              amount, workers, timeout, endtime, worker, interrupted, stopping>>
workerVars == <<wpc, ready, conn, conn_socks, rlist, expired, exit, interrupt>>
connVars == <<cst, closes, shut>>
statVars == <<stats_enabled, requests_seen, bytes_read, bytes_written, start_time,
              conn_requests_seen, rfile_bytes_read, wfile_bytes_written, served>>
pollVars == <<readable>>
vars == <<poolVars, workerVars, connVars, now, statVars, pollVars>>

\* ----------------------------------------------------------------- helpers
Max2(a, b) == IF a >= b THEN a ELSE b
Min2(a, b) == IF a <= b THEN a ELSE b

\* list.remove / list.pop(i) on a 1-based sequence
RemoveAt(s, i) == [k \in 1..(Len(s) - 1) |-> IF k < i THEN s[k] ELSE s[k + 1]]
SeqToSet(s) == {s[k] : k \in 1..Len(s)}
\* dict store and dict.pop
Store(d, k, v) == [x \in (DOMAIN d) \cup {k} |-> IF x = k THEN v ELSE d[x]]
\* (mutant) the entry is left in the dict
Pop_keeps(d, k) == d
Pop(d, k) == [x \in (DOMAIN d) \ {k} |-> d[x]]
EmptyDict == [x \in {} |-> 0]
\* the ascending list of the integers a..b
RECURSIVE Range(_, _)
Range(a, b) == IF a > b THEN <<>> ELSE <<a>> \o Range(a + 1, b)

\* threading.Thread.isAlive(): started and run() not yet ended
isAlive(w) == wpc[w] \notin {"unborn", "dead"}
Unborn == {w \in Workers : wpc[w] = "unborn"}
\* Thread objects are created in the order of their ids
NextId == Cardinality(Workers \ Unborn) + 1
Live == {w \in Workers : isAlive(w)}

\* (mutant) the queue takes maxsize for no bound
Full_never == FALSE

\* queue.Queue: full iff maxsize > 0 and qsize() >= maxsize
Full == maxsize > 0 /\ Len(queue) >= maxsize
qsize == Len(queue)
\* room for n more items within what the model lets the queue hold
Room(n) == maxsize > 0 \/ Len(queue) + n <= MaxQueue

\* ------------------------------------------------------------------- Init
\* ThreadPool.__init__ with min, max and accepted_queue_size drawn from the given
\* sets, server.stats['Enabled'] drawn from the set enabled, and no thread,
\* connection or call yet
InitStats(mins, maxs, sizes, enabled) ==
    /\ min \in mins
    /\ max \in maxs
    /\ maxsize \in sizes
    /\ srv_timeout = 1
    /\ threads = <<>>
    /\ queue = <<>>
    /\ pc = "idle"
    /\ caller = MAIN
    /\ started = FALSE
    /\ amount = 0
    /\ workers = <<>>
    /\ timeout = -1
    /\ endtime = 0
    /\ worker = None
    /\ interrupted = FALSE
    /\ stopping = <<>>
    /\ wpc = [w \in Workers |-> "unborn"]
    /\ ready = [w \in Workers |-> FALSE]
    /\ conn = [w \in Workers |-> None]
    /\ conn_socks = [w \in Workers |-> EmptyDict]
    /\ rlist = [w \in Workers |-> {}]
    /\ expired = [w \in Workers |-> {}]
    /\ exit = [w \in Workers |-> "none"]
    /\ interrupt = None
    /\ cst = [c \in Conns |-> "new"]
    /\ closes = [c \in Conns |-> 0]
    /\ shut = [c \in Conns |-> FALSE]
    /\ now = 0
    /\ stats_enabled \in enabled
    /\ requests_seen = [w \in Workers |-> 0]
    /\ bytes_read = [w \in Workers |-> 0]
    /\ bytes_written = [w \in Workers |-> 0]
    /\ start_time = [w \in Workers |-> NoTime]
    /\ conn_requests_seen = [c \in Conns |-> 0]
    /\ rfile_bytes_read = [c \in Conns |-> 0]
    /\ wfile_bytes_written = [c \in Conns |-> 0]
    /\ served = [w \in Workers |-> [requests |-> 0, read |-> 0, written |-> 0]]
    /\ readable = {}

\* the same with the statistics off, which is the server's default
InitWith(mins, maxs, sizes) == InitStats(mins, maxs, sizes, {FALSE})

Init == InitWith(0..MaxMin, {-1, 2}, {-1, 1})

\* ------------------------------------------------------- ThreadPool.start
\* threading.Thread.start() on the workers of list ws
spawn(ws) == [w \in Workers |-> IF w \in SeqToSet(ws) THEN "start" ELSE wpc[w]]

\* start(): append min workers, start each one, then wait for them
Start ==
    /\ pc = "idle" /\ ~started
    /\ min <= Cardinality(Unborn)
    /\ threads' = threads \o Range(NextId, NextId + min - 1)
    /\ wpc' = spawn(threads')
    /\ started' = TRUE
    /\ pc' = "start_wait"
    /\ caller' = MAIN
    /\ UNCHANGED <<min, max, maxsize, srv_timeout, queue, amount, workers, timeout,
                   endtime, worker, interrupted, stopping>>
    /\ UNCHANGED <<ready, conn, conn_socks, rlist, expired, exit, interrupt>>
    /\ UNCHANGED <<connVars, now>>
    /\ UNCHANGED statVars
    /\ UNCHANGED pollVars

\* (mutant) the polling loop waits for the first worker only
all_ready_first_only(ws) == Len(ws) > 0 => ready[ws[1]]

\* the condition start()'s polling loop waits for
all_ready(ws) == \A k \in 1..Len(ws) : ready[ws[k]]

StartReturn ==
    /\ pc = "start_wait"
    /\ all_ready(threads)
    /\ pc' = "idle"
    /\ UNCHANGED <<min, max, maxsize, srv_timeout, threads, queue, caller, started,
                   amount, workers, timeout, endtime, worker, interrupted, stopping>>
    /\ UNCHANGED <<workerVars, connVars, now>>
    /\ UNCHANGED statVars
    /\ UNCHANGED pollVars

\* -------------------------------------------------------- ThreadPool.grow
\* (mutant) the budget is ignored
n_new_no_budget(a) == a

\* n_new: min(amount, budget), budget being max(self.max - len(_threads), 0)
\* or, with self.max <= 0, float('inf')
n_new(a) ==
    IF max > 0 THEN Min2(a, Max2(max - Len(threads), 0)) ELSE a

\* grow(amount): spawn and start n_new workers, then wait for them
Grow(a) ==
    /\ pc = "idle" /\ started
    /\ n_new(a) <= Cardinality(Unborn)
    /\ workers' = Range(NextId, NextId + n_new(a) - 1)
    /\ wpc' = spawn(workers')
    /\ amount' = a
    /\ pc' = "grow_wait"
    /\ caller' = MAIN
    /\ UNCHANGED <<min, max, maxsize, srv_timeout, threads, queue, started, timeout,
                   endtime, worker, interrupted, stopping>>
    /\ UNCHANGED <<ready, conn, conn_socks, rlist, expired, exit, interrupt>>
    /\ UNCHANGED <<connVars, now>>
    /\ UNCHANGED statVars
    /\ UNCHANGED pollVars

\* once all of them are ready: self._threads.extend(workers)
GrowReturn ==
    /\ pc = "grow_wait"
    /\ all_ready(workers)
    /\ threads' = threads \o workers
    /\ workers' = <<>>
    /\ pc' = "idle"
    /\ UNCHANGED <<min, max, maxsize, srv_timeout, queue, caller, started, amount,
                   timeout, endtime, worker, interrupted, stopping>>
    /\ UNCHANGED <<workerVars, connVars, now>>
    /\ UNCHANGED statVars
    /\ UNCHANGED pollVars

\* ------------------------------------------------------ ThreadPool.shrink
\* "for t in self._threads: if not t.isAlive(): self._threads.remove(t);
\* amount -= 1".  The list iterator keeps an index into the list it walks: after
\* a removal at index i it goes on at index i + 1 of the shortened list.
RECURSIVE prune_dead(_, _, _)
prune_dead(ts, i, amt) ==
    IF i > Len(ts) THEN [threads |-> ts, amount |-> amt]
    ELSE IF ~isAlive(ts[i]) THEN prune_dead(RemoveAt(ts, i), i + 1, amt - 1)
    ELSE prune_dead(ts, i + 1, amt)

\* n_extra = max(len(self._threads) - self.min, 0)
n_extra(ts) == Max2(Len(ts) - min, 0)
\* n_to_remove = min(amount, n_extra)
n_to_remove(amt, ts) == Min2(amt, n_extra(ts))

\* shrink(amount) up to its loop of puts; range() of a negative number is empty
Shrink(a) ==
    /\ pc = "idle" /\ started
    /\ LET p == prune_dead(threads, 1, a)
           n == Max2(n_to_remove(p.amount, p.threads), 0)
       IN /\ Room(n)
          /\ threads' = p.threads
          /\ amount' = n
          /\ pc' = IF n > 0 THEN "shrink_put" ELSE "idle"
    /\ caller' = MAIN
    /\ UNCHANGED <<min, max, maxsize, srv_timeout, queue, started, workers, timeout,
                   endtime, worker, interrupted, stopping>>
    /\ UNCHANGED <<workerVars, connVars, now>>
    /\ UNCHANGED statVars
    /\ UNCHANGED pollVars

\* self._queue.put(_SHUTDOWNREQUEST): blocks while the queue is full
ShrinkPut ==
    /\ pc = "shrink_put"
    /\ ~Full
    /\ queue' = Append(queue, _SHUTDOWNREQUEST)
    /\ amount' = amount - 1
    /\ pc' = IF amount' > 0 THEN "shrink_put" ELSE "idle"
    /\ UNCHANGED <<min, max, maxsize, srv_timeout, threads, caller, started, workers,
                   timeout, endtime, worker, interrupted, stopping>>
    /\ UNCHANGED <<workerVars, connVars, now>>
    /\ UNCHANGED statVars
    /\ UNCHANGED pollVars

\* ------------------------------------------------------- WorkerThread.run
\* run() up to the loop: register the stats, self.ready = True, conn_socks = {}
WorkerRun(w) ==
    /\ wpc[w] = "start"
    /\ ready' = [ready EXCEPT ![w] = TRUE]
    /\ wpc' = [wpc EXCEPT ![w] = "get"]
    /\ UNCHANGED <<poolVars, conn, conn_socks, rlist, expired, exit, interrupt>>
    /\ UNCHANGED <<connVars, now>>
    /\ UNCHANGED statVars
    /\ UNCHANGED pollVars

\* conn_expired(last_active, cur_time)
conn_expired(last_active, cur_time) == cur_time - last_active > srv_timeout

\* get_expired_conns(conn_socks, cur_time): the expired connections of the dict
get_expired_conns(socks, cur_time) ==
    {c \in DOMAIN socks : conn_expired(socks[c], cur_time)}

\* process_conns: socks = [sck for sck in conn_socks.keys() if sck.fileno() > -1]
valid_socks(socks) == {c \in DOMAIN socks : closes[c] = 0}

\* The rest of a loop iteration once conn_socks is socks and rlist (what is left of
\* it) is rl: the next ready connection if there is one, else
\* get_expired_conns(conn_socks, time.time()) and close_conns over its result,
\* else the next get().
proceed(w, socks, rl) ==
    LET exp == IF rl = {} THEN get_expired_conns(socks, now) ELSE {}
    IN /\ conn_socks' = [conn_socks EXCEPT ![w] = socks]
       /\ rlist' = [rlist EXCEPT ![w] = rl]
       /\ expired' = [expired EXCEPT ![w] = exp]
       /\ wpc' = [wpc EXCEPT ![w] = IF rl # {} THEN "proc"
                                    ELSE IF exp # {} THEN "sweep" ELSE "get"]

\* select.select(socks, [], [], 0)[0]: the valid sockets that have data waiting,
\* and any of the others, on which data may be arriving just now
select(w, socks) ==
    \E rl \in SUBSET valid_socks(socks) :
        /\ readable \cap valid_socks(socks) \subseteq rl
        /\ proceed(w, socks, rl)

\* data arrives on the socket of connection c and waits there to be read
DataArrives(c) ==
    /\ c \notin readable
    /\ cst[c] = "queued"
    /\ closes[c] = 0
    /\ readable' = readable \cup {c}
    /\ UNCHANGED <<poolVars, workerVars, connVars, now, statVars>>

\* get() returns _SHUTDOWNREQUEST: return
GetShutdown(w) ==
    /\ wpc[w] = "get"
    /\ queue # <<>> /\ Head(queue) = _SHUTDOWNREQUEST
    /\ queue' = Tail(queue)
    /\ wpc' = [wpc EXCEPT ![w] = "dead"]
    /\ exit' = [exit EXCEPT ![w] = "sentinel"]
    /\ UNCHANGED <<min, max, maxsize, srv_timeout, threads, pc, caller, started,
                   amount, workers, timeout, endtime, worker, interrupted, stopping>>
    /\ UNCHANGED <<ready, conn, conn_socks, rlist, expired, interrupt>>
    /\ UNCHANGED <<connVars, now>>
    /\ UNCHANGED statVars
    /\ UNCHANGED pollVars

\* get() returns a connection: conn_socks[conn.socket] = (conn, time.time()),
\* then process_conns' select
GetConn(w) ==
    /\ wpc[w] = "get"
    /\ queue # <<>> /\ Head(queue) # _SHUTDOWNREQUEST
    /\ queue' = Tail(queue)
    /\ select(w, Store(conn_socks[w], Head(queue), now))
    /\ UNCHANGED <<min, max, maxsize, srv_timeout, threads, pc, caller, started,
                   amount, workers, timeout, endtime, worker, interrupted, stopping>>
    /\ UNCHANGED <<ready, conn, exit, interrupt>>
    /\ UNCHANGED <<connVars, now>>
    /\ UNCHANGED statVars
    /\ UNCHANGED pollVars

\* (mutant) on queue.Empty the loop starts over with the next get()
GetEmpty_retries(w) ==
    /\ wpc[w] = "get"
    /\ queue = <<>>
    /\ UNCHANGED vars

\* get() raises queue.Empty after its 10 ms: pass, then process_conns' select
GetEmpty(w) ==
    /\ wpc[w] = "get"
    /\ queue = <<>>
    /\ select(w, conn_socks[w])
    /\ UNCHANGED <<poolVars, ready, conn, exit, interrupt>>
    /\ UNCHANGED <<connVars, now>>
    /\ UNCHANGED statVars
    /\ UNCHANGED pollVars

\* A worker that is running stop() from inside a request is not returning from
\* that request.
InStop(w) == pc # "idle" /\ caller = w

\* ------------------------------------------------- WorkerThread statistics
\* self.stats['Requests'], ['Bytes Read'], ['Bytes Written']: the banked total,
\* plus the counter of self.conn unless self.start_time is None
Requests(w) ==
    requests_seen[w] +
        (IF start_time[w] = NoTime THEN 0 ELSE conn_requests_seen[conn[w]])
BytesRead(w) ==
    bytes_read[w] + (IF start_time[w] = NoTime THEN 0 ELSE rfile_bytes_read[conn[w]])
BytesWritten(w) ==
    bytes_written[w] +
        (IF start_time[w] = NoTime THEN 0 ELSE wfile_bytes_written[conn[w]])

\* log_start_stats(), behind if_stats: self.start_time = time.time()
log_start_stats(w) ==
    /\ start_time' = [start_time EXCEPT ![w] = IF stats_enabled THEN now ELSE @]
    /\ UNCHANGED <<stats_enabled, requests_seen, bytes_read, bytes_written,
                   conn_requests_seen, rfile_bytes_read, wfile_bytes_written, served>>

\* log_close_stats(), behind if_stats: the counters of self.conn are added to the
\* worker's totals and self.start_time = None  (work_time is not followed)
log_close_stats(w) ==
    /\ requests_seen' = [requests_seen EXCEPT ![w] =
            IF stats_enabled THEN @ + conn_requests_seen[conn[w]] ELSE @]
    /\ bytes_read' = [bytes_read EXCEPT ![w] =
            IF stats_enabled THEN @ + rfile_bytes_read[conn[w]] ELSE @]
    /\ bytes_written' = [bytes_written EXCEPT ![w] =
            IF stats_enabled THEN @ + wfile_bytes_written[conn[w]] ELSE @]
    /\ start_time' = [start_time EXCEPT ![w] = IF stats_enabled THEN NoTime ELSE @]
    /\ UNCHANGED <<stats_enabled, conn_requests_seen, rfile_bytes_read,
                   wfile_bytes_written, served>>

ReadSizes == {0, 1}
WriteSizes == {1, 2}

\* Inside communicate() the connection serves a request that reads r and writes
\* wr units: its counters requests_seen, rfile.bytes_read and wfile.bytes_written
\* advance by 1, r and wr.
HandleRequest(w, r, wr) ==
    /\ wpc[w] = "comm"
    /\ conn_requests_seen[conn[w]] < MaxCount
    /\ conn_requests_seen' = [conn_requests_seen EXCEPT ![conn[w]] = @ + 1]
    /\ rfile_bytes_read' = [rfile_bytes_read EXCEPT ![conn[w]] = @ + r]
    /\ wfile_bytes_written' = [wfile_bytes_written EXCEPT ![conn[w]] = @ + wr]
    /\ served' = [served EXCEPT ![w] = [requests |-> @.requests + 1,
                                        read |-> @.read + r,
                                        written |-> @.written + wr]]
    /\ UNCHANGED <<stats_enabled, requests_seen, bytes_read, bytes_written,
                   start_time>>
    /\ UNCHANGED <<poolVars, workerVars, connVars, now>>
    /\ UNCHANGED pollVars

\* process_conns, for sock in rlist: self.conn = conn; log_start_stats();
\* conn.communicate() is entered
Communicate(w, c) ==
    /\ wpc[w] = "proc"
    /\ c \in rlist[w]
    /\ conn' = [conn EXCEPT ![w] = c]
    /\ rlist' = [rlist EXCEPT ![w] = @ \ {c}]
    /\ wpc' = [wpc EXCEPT ![w] = "comm"]
    /\ log_start_stats(w)
    /\ UNCHANGED <<poolVars, ready, conn_socks, expired, exit, interrupt>>
    /\ UNCHANGED <<connVars, now>>
    /\ readable' = readable \ {c}

\* the same, but this communicate() blocks and does not return on its own
CommunicateBlocks(w, c) ==
    /\ wpc[w] = "proc"
    /\ c \in rlist[w]
    /\ conn' = [conn EXCEPT ![w] = c]
    /\ rlist' = [rlist EXCEPT ![w] = @ \ {c}]
    /\ wpc' = [wpc EXCEPT ![w] = "hung"]
    /\ log_start_stats(w)
    /\ UNCHANGED <<poolVars, ready, conn_socks, expired, exit, interrupt>>
    /\ UNCHANGED <<connVars, now>>
    /\ readable' = readable \ {c}

\* communicate() returns: conn_socks[conn.socket] = (conn, time.time());
\* log_close_stats(); self.conn = None
CommunicateReturns(w) ==
    /\ wpc[w] = "comm" /\ ~InStop(w)
    /\ log_close_stats(w)
    /\ conn' = [conn EXCEPT ![w] = None]
    /\ proceed(w, Store(conn_socks[w], conn[w], now), rlist[w])
    /\ UNCHANGED <<poolVars, ready, exit, interrupt>>
    /\ UNCHANGED <<connVars, now>>
    /\ UNCHANGED pollVars

\* except Exception: conn.close(); conn_socks.pop(conn.socket);
\* then log_close_stats(); self.conn = None
process_error(w) ==
    /\ closes' = [closes EXCEPT ![conn[w]] = @ + 1]
    /\ log_close_stats(w)
    /\ conn' = [conn EXCEPT ![w] = None]
    /\ proceed(w, Pop(conn_socks[w], conn[w]), rlist[w])

\* communicate() raises an Exception
CommunicateRaises(w) ==
    /\ wpc[w] = "comm" /\ ~InStop(w)
    /\ process_error(w)
    /\ UNCHANGED <<poolVars, ready, exit, interrupt>>
    /\ UNCHANGED <<cst, shut, now>>
    /\ UNCHANGED pollVars

\* a communicate() blocked on a socket that stop() has shut down raises
CommunicateUnblocked(w) ==
    /\ wpc[w] = "hung" /\ shut[conn[w]]
    /\ process_error(w)
    /\ UNCHANGED <<poolVars, ready, exit, interrupt>>
    /\ UNCHANGED <<cst, shut, now>>
    /\ UNCHANGED pollVars

\* (mutant) the interrupt is caught inside the loop, which goes on
interrupted_swallowed(w) ==
    /\ wpc' = [wpc EXCEPT ![w] = "get"]
    /\ UNCHANGED <<exit, interrupt>>

\* except (KeyboardInterrupt, SystemExit) as ex: self.server.interrupt = ex;
\* run() ends
interrupted_exit(w) ==
    /\ wpc' = [wpc EXCEPT ![w] = "dead"]
    /\ exit' = [exit EXCEPT ![w] = "interrupt"]
    /\ interrupt' = w

\* communicate() raises KeyboardInterrupt or SystemExit inside process_conns
CommunicateInterrupted(w) ==
    /\ wpc[w] = "comm" /\ ~InStop(w)
    /\ interrupted_exit(w)
    /\ UNCHANGED <<poolVars, ready, conn, conn_socks, rlist, expired>>
    /\ UNCHANGED <<connVars, now>>
    /\ UNCHANGED statVars
    /\ UNCHANGED pollVars

\* close_conns, for conn in conn_list: conn.communicate(); conn.close();
\* conn_socks.pop(conn.socket)
CloseConn(w, c) ==
    /\ wpc[w] = "sweep"
    /\ c \in expired[w]
    /\ closes' = [closes EXCEPT ![c] = @ + 1]
    /\ conn_socks' = [conn_socks EXCEPT ![w] = Pop(@, c)]
    /\ expired' = [expired EXCEPT ![w] = @ \ {c}]
    /\ wpc' = [wpc EXCEPT ![w] = IF expired'[w] = {} THEN "get" ELSE "sweep"]
    /\ UNCHANGED <<poolVars, ready, conn, rlist, exit, interrupt>>
    /\ UNCHANGED <<cst, shut, now>>
    /\ UNCHANGED statVars
    /\ UNCHANGED pollVars

\* close_conns: conn.communicate() raises an Exception, which nothing in run()
\* catches: the thread ends
CloseConnRaises(w, c) ==
    /\ wpc[w] = "sweep"
    /\ c \in expired[w]
    /\ wpc' = [wpc EXCEPT ![w] = "dead"]
    /\ exit' = [exit EXCEPT ![w] = "error"]
    /\ UNCHANGED <<poolVars, ready, conn, conn_socks, rlist, expired, interrupt>>
    /\ UNCHANGED <<connVars, now>>
    /\ UNCHANGED statVars
    /\ UNCHANGED pollVars

\* close_conns: conn.communicate() raises KeyboardInterrupt or SystemExit
CloseConnInterrupted(w, c) ==
    /\ wpc[w] = "sweep"
    /\ c \in expired[w]
    /\ interrupted_exit(w)
    /\ UNCHANGED <<poolVars, ready, conn, conn_socks, rlist, expired>>
    /\ UNCHANGED <<connVars, now>>
    /\ UNCHANGED statVars
    /\ UNCHANGED pollVars

\* close_conns: conn.communicate() blocks and does not return
CloseConnBlocks(w, c) ==
    /\ wpc[w] = "sweep"
    /\ c \in expired[w]
    /\ wpc' = [wpc EXCEPT ![w] = "sweep_hung"]
    /\ UNCHANGED <<poolVars, ready, conn, conn_socks, rlist, expired, exit, interrupt>>
    /\ UNCHANGED <<connVars, now>>
    /\ UNCHANGED statVars
    /\ UNCHANGED pollVars

\* time passes
Tick ==
    /\ now < MaxTime \/ (pc = "stop_join" /\ now < endtime)
    /\ now' = now + 1
    /\ UNCHANGED <<poolVars, workerVars, connVars>>
    /\ UNCHANGED statVars
    /\ UNCHANGED pollVars

\* --------------------------------------------------------- ThreadPool.put
\* The accept loop is one thread; it submits its connections one after another.
may_put(c) ==
    /\ cst[c] = "new"
    /\ \A d \in Conns : cst[d] # "blocked" /\ (d < c => cst[d] # "new")

\* put(obj), the queue not full: the item is enqueued at once
Put(c) ==
    /\ may_put(c)
    /\ ~Full /\ Room(1)
    /\ queue' = Append(queue, c)
    /\ cst' = [cst EXCEPT ![c] = "queued"]
    /\ UNCHANGED <<min, max, maxsize, srv_timeout, threads, pc, caller, started,
                   amount, workers, timeout, endtime, worker, interrupted, stopping>>
    /\ UNCHANGED <<workerVars, closes, shut, now>>
    /\ UNCHANGED statVars
    /\ UNCHANGED pollVars

\* put(obj), the queue full: the caller waits, for up to self._queue_put_timeout
PutBlocks(c) ==
    /\ may_put(c)
    /\ Full
    /\ cst' = [cst EXCEPT ![c] = "blocked"]
    /\ UNCHANGED <<poolVars, workerVars, closes, shut, now>>
    /\ UNCHANGED statVars
    /\ UNCHANGED pollVars

\* a slot is freed before the timeout elapses: the item is enqueued
PutUnblocked(c) ==
    /\ cst[c] = "blocked"
    /\ ~Full
    /\ queue' = Append(queue, c)
    /\ cst' = [cst EXCEPT ![c] = "queued"]
    /\ UNCHANGED <<min, max, maxsize, srv_timeout, threads, pc, caller, started,
                   amount, workers, timeout, endtime, worker, interrupted, stopping>>
    /\ UNCHANGED <<workerVars, closes, shut, now>>
    /\ UNCHANGED statVars
    /\ UNCHANGED pollVars

\* the timeout elapses with the queue still full: queue.Full is raised
PutFull(c) ==
    /\ cst[c] = "blocked"
    /\ Full
    /\ cst' = [cst EXCEPT ![c] = "full"]
    /\ UNCHANGED <<poolVars, workerVars, closes, shut, now>>
    /\ UNCHANGED statVars
    /\ UNCHANGED pollVars

\* -------------------------------------------------------- ThreadPool.stop
\* stop(timeout) is called by thread who: one put per worker of the list follows
stop_call(t, who) ==
    /\ pc = "idle" /\ started
    /\ Room(Len(threads))
    /\ timeout' = t
    /\ caller' = who
    /\ amount' = Len(threads)
    /\ interrupted' = FALSE
    /\ stopping' = threads
    /\ worker' = None
    /\ pc' = "stop_put"
    /\ endtime' = endtime
    /\ UNCHANGED <<min, max, maxsize, srv_timeout, threads, queue, started, workers>>
    /\ UNCHANGED <<workerVars, connVars, now>>
    /\ UNCHANGED statVars
    /\ UNCHANGED pollVars

StopTimeouts == {-1, 0, 1}

\* stop() called by the thread that runs the server
Stop(t) == stop_call(t, MAIN)

\* stop() called inside a request, by the worker that is processing it
StopInRequest(w, t) == wpc[w] = "comm" /\ stop_call(t, w)

\* for worker in self._threads: self._queue.put(_SHUTDOWNREQUEST)
StopPut ==
    /\ pc = "stop_put"
    /\ amount > 0
    /\ ~Full
    /\ queue' = Append(queue, _SHUTDOWNREQUEST)
    /\ amount' = amount - 1
    /\ UNCHANGED <<min, max, maxsize, srv_timeout, threads, pc, caller, started,
                   workers, timeout, endtime, worker, interrupted, stopping>>
    /\ UNCHANGED <<workerVars, connVars, now>>
    /\ UNCHANGED statVars
    /\ UNCHANGED pollVars

\* current = threading.currentThread(); if timeout is not None and timeout >= 0:
\* endtime = time.time() + timeout
StopDeadline ==
    /\ pc = "stop_put"
    /\ amount = 0
    /\ endtime' = IF timeout >= 0 THEN now + timeout ELSE endtime
    /\ pc' = "stop_loop"
    /\ UNCHANGED <<min, max, maxsize, srv_timeout, threads, queue, caller, started,
                   amount, workers, timeout, worker, interrupted, stopping>>
    /\ UNCHANGED <<workerVars, connVars, now>>
    /\ UNCHANGED statVars
    /\ UNCHANGED pollVars

\* (mutant) the sockets of all the connections the worker holds are shut down
force_shutdown_owned(w) == [c \in Conns |-> shut[c] \/ c \in DOMAIN conn_socks[w]]

\* c = worker.conn; if c and not c.rfile.closed: c.socket.shutdown(socket.SHUT_RD)
force_shutdown(w) ==
    IF conn[w] # None /\ closes[conn[w]] = 0
    THEN [shut EXCEPT ![conn[w]] = TRUE]
    ELSE shut

\* (mutant) no worker is joined
must_join_none(w) == FALSE

\* if worker is not current and worker.isAlive()
must_join(w) == w # caller /\ isAlive(w)

\* while self._threads: worker = self._threads.pop(), and what follows up to the
\* join of that worker, if it is joined
StopPop ==
    /\ pc = "stop_loop"
    /\ threads # <<>>
    /\ LET w == threads[Len(threads)]
       IN /\ threads' = SubSeq(threads, 1, Len(threads) - 1)
          /\ worker' = w
          /\ pc' = IF ~must_join(w) THEN "stop_loop"
                   ELSE IF timeout < 0 THEN "stop_final"
                   ELSE IF endtime - now > 0 THEN "stop_join" ELSE "stop_final"
          /\ shut' = IF pc' = "stop_final" /\ timeout >= 0 THEN force_shutdown(w)
                     ELSE shut
    /\ UNCHANGED <<min, max, maxsize, srv_timeout, queue, caller, started, amount,
                   workers, timeout, endtime, interrupted, stopping>>
    /\ UNCHANGED <<workerVars, cst, closes, now>>
    /\ UNCHANGED statVars
    /\ UNCHANGED pollVars

\* worker.join(remaining_time) or worker.join() returns, the worker having ended
StopJoined ==
    /\ pc \in {"stop_join", "stop_final"}
    /\ ~isAlive(worker)
    /\ pc' = "stop_loop"
    /\ UNCHANGED <<min, max, maxsize, srv_timeout, threads, queue, caller, started,
                   amount, workers, timeout, endtime, worker, interrupted, stopping>>
    /\ UNCHANGED <<workerVars, connVars, now>>
    /\ UNCHANGED statVars
    /\ UNCHANGED pollVars

\* worker.join(remaining_time) times out and the worker is alive: the socket of
\* its connection is shut down, worker.join() follows
StopJoinTimeout ==
    /\ pc = "stop_join"
    /\ now >= endtime
    /\ isAlive(worker)
    /\ shut' = force_shutdown(worker)
    /\ pc' = "stop_final"
    /\ UNCHANGED <<min, max, maxsize, srv_timeout, threads, queue, caller, started,
                   amount, workers, timeout, endtime, worker, interrupted, stopping>>
    /\ UNCHANGED <<workerVars, cst, closes, now>>
    /\ UNCHANGED statVars
    /\ UNCHANGED pollVars

\* except (AssertionError, KeyboardInterrupt): pass.  A Ctrl-C reaches the main
\* thread while it is inside a join.
StopInterrupted ==
    /\ pc \in {"stop_join", "stop_final"}
    /\ caller = MAIN
    /\ interrupted' = TRUE
    /\ pc' = "stop_loop"
    /\ UNCHANGED <<min, max, maxsize, srv_timeout, threads, queue, caller, started,
                   amount, workers, timeout, endtime, worker, stopping>>
    /\ UNCHANGED <<workerVars, connVars, now>>
    /\ UNCHANGED statVars
    /\ UNCHANGED pollVars

\* the list is empty: stop() returns
StopReturn ==
    /\ pc = "stop_loop"
    /\ threads = <<>>
    /\ pc' = "idle"
    /\ UNCHANGED <<min, max, maxsize, srv_timeout, threads, queue, caller, started,
                   amount, workers, timeout, endtime, worker, interrupted, stopping>>
    /\ UNCHANGED <<workerVars, connVars, now>>
    /\ UNCHANGED statVars
    /\ UNCHANGED pollVars

\* -------------------------------------------------------- ThreadPool.idle
\* len([t for t in self._threads if t.conn is None])
idle == Cardinality({k \in 1..Len(threads) : conn[threads[k]] = None})

\* ------------------------------------------------------------ the system
Amounts == 0..MaxAmount

PoolStep ==
    \/ Start
    \/ StartReturn
    \/ \E a \in Amounts : Grow(a)
    \/ GrowReturn
    \/ \E a \in Amounts : Shrink(a)
    \/ ShrinkPut
    \/ \E t \in StopTimeouts : Stop(t)
    \/ \E w \in Workers, t \in StopTimeouts : StopInRequest(w, t)
    \/ StopPut
    \/ StopDeadline
    \/ StopPop
    \/ StopJoined
    \/ StopJoinTimeout
    \/ StopInterrupted
    \/ StopReturn

WorkerStep(w) ==
    \/ WorkerRun(w)
    \/ GetShutdown(w)
    \/ GetConn(w)
    \/ GetEmpty(w)
    \/ \E c \in Conns : Communicate(w, c)
    \/ \E c \in Conns : CommunicateBlocks(w, c)
    \/ CommunicateReturns(w)
    \/ CommunicateRaises(w)
    \/ CommunicateUnblocked(w)
    \/ CommunicateInterrupted(w)
    \/ \E c \in Conns : CloseConn(w, c)
    \/ \E c \in Conns : CloseConnRaises(w, c)
    \/ \E c \in Conns : CloseConnInterrupted(w, c)
    \/ \E c \in Conns : CloseConnBlocks(w, c)

AcceptStep ==
    \/ \E c \in Conns : Put(c)
    \/ \E c \in Conns : PutBlocks(c)
    \/ \E c \in Conns : PutUnblocked(c)
    \/ \E c \in Conns : PutFull(c)

Next ==
    \/ PoolStep
    \/ \E w \in Workers : WorkerStep(w)
    \/ AcceptStep
    \/ Tick

Spec == Init /\ [][Next]_vars

\* ---------------------------------------------------------------------
\* The pool is only resized: start, grow and shrink, with workers that find
\* nothing but shutdown requests on the queue.
SizingInit == InitWith(0..MaxMin, {-1, 1, 2}, {-1, 1})

SizingNext ==
    \/ Start
    \/ StartReturn
    \/ \E a \in Amounts : Grow(a)
    \/ GrowReturn
    \/ \E a \in Amounts : Shrink(a)
    \/ ShrinkPut
    \/ \E w \in Workers : WorkerRun(w)
    \/ \E w \in Workers : GetShutdown(w)
    \/ \E w \in Workers : GetEmpty(w)

SizingSpec == SizingInit /\ [][SizingNext]_vars

\* C1: after start(), whatever shrink and grow calls one caller has made, once
\* no call is in progress and every shutdown request put on the queue has been
\* taken by a worker, at least min workers are alive.
C1_ShrinkKeepsMin ==
    (started /\ pc = "idle" /\ _SHUTDOWNREQUEST \notin SeqToSet(queue))
        => Cardinality(Live) >= min

\* C4: when start() returns on a fresh pool, the list holds exactly min workers,
\* each one started and each one ready.
C4_StartReady ==
    [][(pc = "start_wait" /\ pc' = "idle") =>
        /\ Len(threads') = min
        /\ \A k \in 1..Len(threads') :
            wpc'[threads'[k]] # "unborn" /\ ready'[threads'[k]]]_vars

\* start() has returned with min workers, all started and ready: here with two
C4_Witness ==
    /\ started /\ pc = "idle" /\ min = 2 /\ amount = 0
    /\ Len(threads) = 2
    /\ \A k \in 1..Len(threads) : isAlive(threads[k]) /\ ready[threads[k]]

\* C5: when grow(amount) returns, with max > 0 the list is no longer than max (or
\* than it was, if it was longer than max already); with max <= 0 it is longer
\* by exactly amount; and every worker added is ready.
C5_GrowBounded ==
    [][(pc = "grow_wait" /\ pc' = "idle") =>
        /\ max > 0 => Len(threads') <= Max2(max, Len(threads))
        /\ max <= 0 => Len(threads') = Len(threads) + amount
        /\ Len(threads') >= Len(threads)
        /\ \A w \in SeqToSet(threads') \ SeqToSet(threads) : ready'[w]]_vars

\* grow(3) has returned on a pool with max = 2 that start() left empty: the list
\* holds 2 workers, not 3
C5_Witness ==
    /\ pc = "idle" /\ max = 2 /\ min = 0 /\ amount = 3
    /\ Len(threads) = 2
    /\ \A k \in 1..Len(threads) : ready[threads[k]]

\* C10: when shrink returns, the list holds no worker that had already ended
\* when shrink was called.
C10_ShrinkPrunesAllDead ==
    [][\A a \in Amounts : Shrink(a) =>
        \A k \in 1..Len(threads') : isAlive(threads'[k])]_vars

\* C11: shrink(amount) sets out to put min(what is left of amount after pruning,
\* the number of workers of the pruned list that are alive and in excess of min)
\* shutdown requests, none if that is zero or negative, and each of its puts
\* enqueues exactly one.
C11_ShrinkPutsCount ==
    [][/\ \A a \in Amounts : Shrink(a) =>
            amount' = Max2(Min2(a - (Len(threads) - Len(threads')),
                                Cardinality({k \in 1..Len(threads') :
                                    isAlive(threads'[k])}) - min), 0)
       /\ (pc = "shrink_put" /\ amount' # amount) =>
            amount' = amount - 1 /\ queue' = Append(queue, _SHUTDOWNREQUEST)
       /\ (pc = "shrink_put" /\ pc' # "shrink_put") => amount = 1]_vars

\* ---------------------------------------------------------------------
\* A pool of fixed size serves connections: the accept loop submits them, the
\* workers process them, let them expire and close them, as time passes.
ServeInit == InitWith({1, 2}, {-1}, {-1, 1})

ServeNext ==
    \/ Start
    \/ StartReturn
    \/ \E w \in Workers : WorkerRun(w)
    \/ \E w \in Workers : GetConn(w)
    \/ \E w \in Workers : GetEmpty(w)
    \/ \E w \in Workers, c \in Conns : Communicate(w, c)
    \/ \E w \in Workers : CommunicateReturns(w)
    \/ \E w \in Workers : CommunicateRaises(w)
    \/ \E w \in Workers : CommunicateInterrupted(w)
    \/ \E w \in Workers, c \in Conns : CloseConn(w, c)
    \/ \E w \in Workers, c \in Conns : CloseConnRaises(w, c)
    \/ \E w \in Workers, c \in Conns : CloseConnInterrupted(w, c)
    \/ \E c \in Conns : Put(c)
    \/ \E c \in Conns : PutBlocks(c)
    \/ \E c \in Conns : PutUnblocked(c)
    \/ \E c \in Conns : PutFull(c)
    \/ Tick

ServeSpec == ServeInit /\ [][ServeNext]_vars

\* ---------------------------------------------------------------------
\* A pool that is resized while it serves connections, none of which expires.
LoadInit == InitWith({0, 1}, {-1, 2}, {-1, 1})

LoadNext ==
    \/ Start
    \/ StartReturn
    \/ \E a \in Amounts : Grow(a)
    \/ GrowReturn
    \/ \E a \in Amounts : Shrink(a)
    \/ ShrinkPut
    \/ \E w \in Workers : WorkerRun(w)
    \/ \E w \in Workers : GetShutdown(w)
    \/ \E w \in Workers : GetConn(w)
    \/ \E w \in Workers : GetEmpty(w)
    \/ \E w \in Workers, c \in Conns : Communicate(w, c)
    \/ \E w \in Workers : CommunicateReturns(w)
    \/ \E w \in Workers : CommunicateRaises(w)
    \/ \E c \in Conns : Put(c)
    \/ \E c \in Conns : PutBlocks(c)
    \/ \E c \in Conns : PutUnblocked(c)
    \/ \E c \in Conns : PutFull(c)

LoadSpec == LoadInit /\ [][LoadNext]_vars

\* ---------------------------------------------------------------------
\* A pool of fixed size serves connections and is stopped, from the main thread
\* or from inside a request.
StopInit == InitWith({1, 2}, {-1}, {-1, 1})

\* stop() is called once, on a pool whose list is not empty
first_stop == stopping = <<>> /\ threads # <<>>

StopOnce(t) == first_stop /\ Stop(t)

StopOnceInRequest(w, t) == first_stop /\ StopInRequest(w, t)

StopStep ==
    \/ \E t \in StopTimeouts : StopOnce(t)
    \/ \E w \in Workers, t \in StopTimeouts : StopOnceInRequest(w, t)
    \/ StopPut
    \/ StopDeadline
    \/ StopPop
    \/ StopJoined
    \/ StopJoinTimeout
    \/ StopInterrupted
    \/ StopReturn

StopNext ==
    \/ Start
    \/ StartReturn
    \/ StopStep
    \/ \E w \in Workers : WorkerStep(w)
    \/ AcceptStep
    \/ Tick

StopSpec == StopInit /\ [][StopNext]_vars

\* ---------------------------------------------------------------------
\* a worker's own step that ends process_conns and so runs the expiry sweep
RunsSweep(w) ==
    /\ GetEmpty(w) \/ GetConn(w) \/ CommunicateReturns(w) \/ CommunicateRaises(w)
    /\ rlist'[w] = {}

\* the worker is inside a call of conn.communicate()
InCall(w) == wpc[w] \in {"comm", "hung", "sweep_hung"}

\* C3: an Exception raised by communicate(), wherever the worker loop calls it, ends
\* no worker; where it is raised inside process_conns the connection is closed and
\* taken out of the worker's conn_socks, the worker lives on and its other
\* connections are as they were.
C3_ErrorContained ==
    [][\A w \in Workers :
        /\ exit'[w] # "error"
        /\ (wpc[w] = "comm" /\ closes'[conn[w]] # closes[conn[w]]) =>
            /\ wpc'[w] # "dead"
            /\ conn[w] \notin DOMAIN conn_socks'[w]
            /\ \A d \in (DOMAIN conn_socks[w]) \ {conn[w]} :
                /\ d \in DOMAIN conn_socks'[w]
                /\ conn_socks'[w][d] = conn_socks[w][d]
                /\ closes'[d] = closes[d]]_vars

\* C6: the depth of a bounded queue never exceeds its capacity; a put blocks only
\* on a full queue and otherwise enqueues its item at once; a put fails with
\* queue.Full only after it blocked, with the queue still full, and its item is
\* not enqueued then or later.
C6_PutBounded ==
    /\ [](maxsize > 0 => qsize <= maxsize)
    /\ [][\A c \in Conns :
            /\ (cst[c] = "new" /\ cst'[c] = "blocked") => Full
            /\ (cst[c] = "new" /\ cst'[c] # "new" /\ ~Full) =>
                    cst'[c] = "queued" /\ queue' = Append(queue, c)
            /\ (cst[c] # "full" /\ cst'[c] = "full") =>
                    cst[c] = "blocked" /\ Full /\ queue' = queue
            /\ cst[c] = "full" =>
                    cst'[c] = "full" /\ c \notin SeqToSet(queue')]_vars

\* a put has failed with queue.Full on a queue filled to its capacity, and its
\* item is not on the queue
C6_Witness ==
    \E c \in Conns :
        /\ cst[c] = "full"
        /\ maxsize > 0 /\ qsize = maxsize
        /\ c \notin SeqToSet(queue)

\* C8: with no pool call in progress, idle is the number of workers that are alive
\* and not inside communicate().
C8_IdleCountsLive ==
    pc = "idle" => idle = Cardinality({w \in Live : ~InCall(w)})

\* C9: a sweep closes and evicts exactly the owned connections whose last_active
\* lies more than srv_timeout before the sweep's time: it finds exactly those, it
\* closes none but those, and it closes every one it found (unless an interrupt
\* ends the worker first).
C9_ExpirySweep ==
    /\ [](\A w \in Workers :
            expired[w] # {} => (wpc[w] = "sweep" \/ exit[w] = "interrupt"))
    /\ [][\A w \in Workers :
            /\ RunsSweep(w) =>
                expired'[w] = {c \in DOMAIN conn_socks'[w] :
                                 now - conn_socks'[w][c] > srv_timeout}
            /\ \A c \in DOMAIN conn_socks[w] :
                (wpc[w] = "sweep" /\ closes'[c] # closes[c]) =>
                    now - conn_socks[w][c] > srv_timeout]_vars

\* what C7 says of stop()'s puts: the call sets out to put one shutdown request
\* per worker of the list, each put enqueues one, and the joins start only when
\* all are put
StopPutsOnePerWorker ==
    /\ (pc = "idle" /\ pc' = "stop_put") => amount' = Len(threads)
    /\ (pc = "stop_put" /\ amount' # amount) =>
            amount' = amount - 1 /\ queue' = Append(queue, _SHUTDOWNREQUEST)
    /\ (pc = "stop_put" /\ pc' # "stop_put") => amount = 0

C13_SingleOwner ==
    \A c \in Conns :
        LET owners == {w \in Workers : c \in DOMAIN conn_socks[w]}
            queued == {k \in 1..Len(queue) : queue[k] = c}
        IN /\ Cardinality(owners) + Cardinality(queued) <= 1
           /\ closes[c] > 0 => owners = {}

\* two workers each own one connection, and later one has closed its connection
\* while the other still owns the other one
C13_Witness ==
    \E c, d \in Conns, w \in Workers :
        /\ c # d
        /\ closes[c] = 1 /\ \A v \in Workers : c \notin DOMAIN conn_socks[v]
        /\ d \in DOMAIN conn_socks[w] /\ closes[d] = 0
        /\ Cardinality(Live) = 2

\* a shutdown request is taken off the queue in this step
SentinelTaken ==
    queue # <<>> /\ Head(queue) = _SHUTDOWNREQUEST /\ queue' = Tail(queue)

\* C14: a worker that is ready ends only in a step that takes a shutdown request
\* off the queue or in a step that records its interrupt in server.interrupt; a
\* step that takes a shutdown request off the queue ends exactly one worker.
C14_EndsOnlyOnSentinel ==
    [][/\ \A w \in Workers :
            (ready[w] /\ isAlive(w) /\ wpc'[w] = "dead") =>
                \/ SentinelTaken
                \/ interrupt' = w /\ exit'[w] = "interrupt"
       /\ SentinelTaken =>
            Cardinality({w \in Workers : isAlive(w) /\ wpc'[w] = "dead"}) = 1]_vars

\* C15: no connection has close() called on it more than once, by the failure
\* path of process_conns and the sweep together; and when a worker's sweep is
\* done with a connection it found expired, close() has been called on that
\* connection exactly once (unless an interrupt ends the worker).
C15_ClosedOnce ==
    /\ [](\A c \in Conns : closes[c] <= 1)
    /\ [][\A w \in Workers, c \in Conns :
            (/\ wpc[w] = "sweep" /\ c \in expired[w]
             /\ (c \notin expired'[w] \/ wpc'[w] \notin {"sweep", "sweep_hung"})
             /\ exit'[w] # "interrupt") => closes'[c] = 1]_vars

\* C17: a socket is shut down only by a stop() with timeout >= 0, when the
\* deadline has passed and the worker being joined is alive, and it is the socket
\* of the connection that worker is inside communicate() on; a stop() with
\* timeout < 0 (or None) shuts down no socket, makes no timed join, and leaves
\* its join of a worker only when that worker has ended (or on KeyboardInterrupt).
C17_ForcedShutdownOnlyOnDeadline ==
    [][/\ \A c \in Conns : (shut'[c] # shut[c]) =>
            /\ pc \in {"stop_loop", "stop_join"} /\ pc' = "stop_final"
            /\ timeout >= 0
            /\ now >= endtime
            /\ isAlive(worker')
            /\ conn[worker'] = c /\ wpc[worker'] \in {"comm", "hung"}
       /\ (timeout < 0 /\ pc \in {"stop_loop", "stop_join", "stop_final"}) =>
            /\ shut' = shut
            /\ pc' # "stop_join"
            /\ (pc = "stop_final" /\ pc' # "stop_final") =>
                    (~isAlive(worker) \/ interrupted')]_vars

\* stop(timeout >= 0) has shut down the socket of the connection on which the
\* worker it is joining is blocked, the deadline over
C17_Witness ==
    \E c \in Conns :
        /\ shut[c] /\ timeout >= 0 /\ now >= endtime
        /\ pc = "stop_final" /\ worker # None
        /\ wpc[worker] = "hung" /\ conn[worker] = c

\* KeyboardInterrupt or SystemExit is raised inside worker w's loop in this step
InterruptRaised(w) ==
    CommunicateInterrupted(w) \/ \E c \in Conns : CloseConnInterrupted(w, c)

\* C18: a step in which KeyboardInterrupt or SystemExit is raised inside a
\* worker's loop records it in server.interrupt and ends that worker; the worker
\* takes no step afterwards, and what server.interrupt holds was raised in a
\* worker that has ended.
C18_InterruptRecorded ==
    /\ [](interrupt # None => ~isAlive(interrupt))
    /\ [][\A w \in Workers :
            /\ InterruptRaised(w) => (interrupt' = w /\ wpc'[w] = "dead")
            /\ (wpc[w] = "dead" /\ interrupt = w) =>
                    /\ wpc'[w] = "dead"
                    /\ conn_socks'[w] = conn_socks[w] /\ conn'[w] = conn[w]]_vars

\* an interrupt raised inside close_conns' communicate() has ended a ready worker
\* and is recorded, while another worker is alive
C18_Witness ==
    \E w \in Workers :
        /\ interrupt = w /\ ready[w] /\ wpc[w] = "dead"
        /\ expired[w] # {}
        /\ Cardinality(Live) = 1

\* ---------------------------------------------------------------------
\* One worker serves connections whose counters advance, with the statistics on
\* or off; no connection expires.
StatsInit == InitStats({1}, {-1}, {-1}, {TRUE, FALSE})

\* the worker is followed while its banked requests are within MaxBanked
CommunicateCounted(w, c) == requests_seen[w] <= MaxBanked /\ Communicate(w, c)

StatsNext ==
    \/ Start
    \/ StartReturn
    \/ \E w \in Workers : WorkerRun(w)
    \/ \E w \in Workers : GetConn(w)
    \/ \E w \in Workers : GetEmpty(w)
    \/ \E w \in Workers, c \in Conns : CommunicateCounted(w, c)
    \/ \E w \in Workers, r \in ReadSizes, wr \in WriteSizes : HandleRequest(w, r, wr)
    \/ \E w \in Workers : CommunicateReturns(w)
    \/ \E w \in Workers : CommunicateRaises(w)
    \/ \E c \in Conns : Put(c)

StatsSpec == StatsInit /\ [][StatsNext]_vars

\* C12: with the statistics on, at any time a worker's 'Requests', 'Bytes Read'
\* and 'Bytes Written' are the numbers of requests served, units read and units
\* written by the calls of communicate() that this worker has made, the call in
\* progress included.
C12_StatsAreTotals ==
    \A w \in Workers : stats_enabled =>
        /\ Requests(w) = served[w].requests
        /\ BytesRead(w) = served[w].read
        /\ BytesWritten(w) = served[w].written

\* ---------------------------------------------------------------------
\* One worker polls under fair scheduling: the worker, when it can take a step,
\* eventually takes one; every communicate() returns.  Data arrives on a
\* connection once a worker owns it, and select() reports the sockets on which
\* data is waiting.
PollInit == InitWith({1}, {-1}, {-1})

Owned(c) == \E w \in Workers : c \in DOMAIN conn_socks[w]

DataArrivesOwned(c) == Owned(c) /\ DataArrives(c)

PollGetConn(w) == GetConn(w) /\ rlist'[w] \subseteq readable

PollGetEmpty(w) == GetEmpty(w) /\ rlist'[w] \subseteq readable

PollLoop(w) ==
    \/ WorkerRun(w)
    \/ PollGetConn(w)
    \/ PollGetEmpty(w)
    \/ \E c \in Conns : Communicate(w, c)
    \/ CommunicateReturns(w)
    \/ \E c \in Conns : CloseConn(w, c)

PollNext ==
    \/ Start
    \/ StartReturn
    \/ \E w \in Workers : PollLoop(w)
    \/ \E c \in Conns : Put(c)
    \/ \E c \in Conns : DataArrivesOwned(c)
    \/ Tick

PollSpec ==
    /\ PollInit /\ [][PollNext]_vars
    /\ \A w \in Workers : WF_vars(PollLoop(w))

\* C16: when a worker that is alive owns a connection on whose socket data is
\* waiting, the worker eventually calls communicate() on that connection, also
\* when the queue stays empty from then on.
C16_OwnedConnProgress ==
    \A w \in Workers, c \in Conns :
        (isAlive(w) /\ c \in DOMAIN conn_socks[w] /\ c \in readable /\ closes[c] = 0)
            ~> ((wpc[w] = "comm" /\ conn[w] = c) \/ closes[c] > 0)

\* The worker is inside communicate() on the last connection submitted, with the
\* queue empty: the data arrived after the iteration that dequeued it, so the
\* select() that found it followed a get() that raised queue.Empty.
C16_Witness ==
    \E w \in Workers :
        /\ wpc[w] = "comm" /\ conn[w] = NumConns
        /\ queue = <<>>
        /\ \A d \in Conns : cst[d] = "queued"

\* ---------------------------------------------------------------------
\* Stopping a pool of one worker under fair scheduling: every thread that can
\* take a step eventually takes one, time passes, a communicate() that is not
\* blocked ends, and at most one call of communicate() blocks, which it does
\* before stop() is called.
LiveInit == InitWith({1}, {-1}, {-1, 1})

NoneBlocked ==
    /\ \A w \in Workers : wpc[w] \notin {"hung", "sweep_hung"}
    /\ stopping = <<>> /\ pc \in {"idle", "start_wait"}

BlocksOnce(w, c) == NoneBlocked /\ CommunicateBlocks(w, c)

CloseBlocksOnce(w, c) == NoneBlocked /\ CloseConnBlocks(w, c)

\* the steps a worker takes by itself
Loop(w) ==
    \/ WorkerRun(w)
    \/ GetShutdown(w)
    \/ GetConn(w)
    \/ GetEmpty(w)
    \/ \E c \in Conns : Communicate(w, c)
    \/ CommunicateReturns(w)
    \/ CommunicateRaises(w)
    \/ CommunicateUnblocked(w)
    \/ \E c \in Conns : CloseConn(w, c)
    \/ \E c \in Conns : CloseConnRaises(w, c)

\* the steps stop() takes by itself
StopRuns ==
    \/ StopPut
    \/ StopDeadline
    \/ StopPop
    \/ StopJoined
    \/ StopJoinTimeout
    \/ StopReturn

LiveNext ==
    \/ Start
    \/ StartReturn
    \/ \E t \in StopTimeouts : StopOnce(t)
    \/ \E w \in Workers, t \in StopTimeouts : StopOnceInRequest(w, t)
    \/ StopRuns
    \/ StopInterrupted
    \/ \E w \in Workers : Loop(w)
    \/ \E w \in Workers : CommunicateInterrupted(w)
    \/ \E w \in Workers, c \in Conns : CloseConnInterrupted(w, c)
    \/ \E w \in Workers, c \in Conns : BlocksOnce(w, c)
    \/ \E w \in Workers, c \in Conns : CloseBlocksOnce(w, c)
    \/ AcceptStep
    \/ Tick

LiveSpec ==
    /\ LiveInit /\ [][LiveNext]_vars
    /\ WF_vars(StartReturn)
    /\ WF_vars(StopRuns)
    /\ \A w \in Workers : WF_vars(Loop(w))
    /\ WF_vars(Tick)

\* C2: a stop(timeout) with timeout >= 0, once called, returns.
C2_StopReturns == (pc = "stop_put" /\ timeout >= 0) ~> (pc = "idle")

\* what C19 says of the joins of a stop() called by a worker inside a request:
\* it never joins its caller, and when it returns every other worker of the list
\* has ended while the caller is still inside its request
NoSelfJoin ==
    (caller # MAIN /\ pc \in {"stop_put", "stop_loop", "stop_join", "stop_final"}) =>
        /\ pc' \in {"stop_join", "stop_final"} => worker' # caller
        /\ (pc = "stop_loop" /\ pc' = "idle") =>
            /\ wpc'[caller] = "comm"
            /\ \A w \in SeqToSet(stopping) : w # caller => wpc'[w] = "dead"

\* C19: a stop() called by a worker inside a request never joins that worker,
\* joins every other worker that is alive, and returns.
C19_StopInRequestReturns ==
    /\ [][NoSelfJoin]_vars
    /\ (pc = "stop_put" /\ caller # MAIN) ~> (pc = "idle")

\* C20: once no pool call is in progress and every worker has ended, no shutdown
\* request is left on the queue (where a worker spawned later would find it).
C20_NoSentinelLeftOver ==
    (started /\ pc = "idle" /\ Live = {}) => _SHUTDOWNREQUEST \notin SeqToSet(queue)

====
